---- MODULE Spec2Model ----
(***************************************************************************)
(* A model of licentia (github.com/c4milo/licentia): the header insert /   *)
(* remove engine (insertLicense, removeLicense, prependEOLComment), the    *)
(* batch operations Set, Unset and Detect with their per-file goroutines,  *)
(* the aggregated Error, and globFiles.                                    *)
(*                                                                         *)
(* Text is a sequence of tokens.  A token is a Go string that is never     *)
(* split by the operations modelled here ("\n", " ", "//", "Copyright",    *)
(* "package", a whole line of a license notice, ...); the Go string a      *)
(* sequence stands for is the concatenation of its tokens, and TokLen      *)
(* gives each token's length in bytes where the code uses byte offsets.    *)
(***************************************************************************)
EXTENDS Integers, Sequences, FiniteSets, TLC

(***************************************************************************)
(* Bounds of the model.                                                    *)
(***************************************************************************)
\* Longest initial file content, in tokens.
MaxLen == 3
\* Number of Set / Unset calls applied one after the other to the file.
MaxOps == 2
\* Most lines of an initial file content that is made of whole lines.
MaxLines == 3
\* Most files (goroutines) of a batch.
MaxFiles == 2
\* Longest initial content of a file that is not both readable and writable.
FailLen == 1

(***************************************************************************)
(* Tokens.                                                                 *)
(***************************************************************************)
NL == "\n"
CR == "\r"
SP == " "
Slashes == "//"
Hash == "#"
CopyrightWord == "Copyright"
PackageWord == "package"
OwnerMark == "@@owner@@"
YearMark == "@@year@@"

\* The three lines of the MPL 2.0 notice.
MPL2Line1 == "This Source Code Form is subject to the terms of the Mozilla Public"
MPL2Line2 == "License, version 2.0. If a copy of the MPL was not distributed with this"
MPL2Line3 == "file, You can obtain one at http://mozilla.org/MPL/2.0/."

\* The tokens of more than one byte.
Words ==
    {Slashes, "Test", "2026", PackageWord, YearMark, CopyrightWord, OwnerMark,
     MPL2Line1, MPL2Line2, MPL2Line3}

\* The last n bytes of the word w, left in a file when a shorter write at
\* offset 0 covered the word's first bytes.  Such a piece holds no "\n" and
\* is none of the texts the code looks for.
Frag(w, n) == "~" \o ToString(n) \o "~" \o w

\* The word and the length of a piece.
FragWord(t) == CHOOSE w \in Words : \E n \in 1..71 : t = Frag(w, n)
FragLen(t) == CHOOSE n \in 1..71 : \E w \in Words : t = Frag(w, n)

\* len(t) in bytes.
TokLen(t) ==
    CASE t \in {NL, CR, SP, Hash, "h"} -> 1
      [] t = Slashes -> 2
      [] t \in {"Test", "2026"} -> 4
      [] t = PackageWord -> 7
      [] t = YearMark -> 8
      [] t \in {CopyrightWord, OwnerMark} -> 9
      [] t = MPL2Line1 -> 67
      [] t = MPL2Line2 -> 72
      [] t = MPL2Line3 -> 56
      [] OTHER -> FragLen(t)

\* The tokens a file's initial content is drawn from.
Alphabet == {NL, CR, SP, Slashes, CopyrightWord, PackageWord}

\* unicode.IsSpace on the tokens.
IsSpace(t) == t \in {NL, CR, SP}

RECURSIVE ByteLen(_)
ByteLen(s) == IF s = <<>> THEN 0 ELSE TokLen(Head(s)) + ByteLen(Tail(s))

RECURSIVE SeqsUpTo(_, _)
SeqsUpTo(S, n) ==
    IF n = 0 THEN {<<>>}
    ELSE LET shorter == SeqsUpTo(S, n - 1)
         IN shorter \cup {Append(s, t) : s \in {x \in shorter : Len(x) = n - 1}, t \in S}

(***************************************************************************)
(* The string functions of the Go library that the code calls.             *)
(***************************************************************************)
\* bytes.HasPrefix / strings.HasPrefix
HasPrefix(s, p) == Len(p) <= Len(s) /\ SubSeq(s, 1, Len(p)) = p

\* strings.Index in tokens: the first position (from 1) where pat occurs in s,
\* 0 when it does not occur.
RECURSIVE IndexFrom(_, _, _)
IndexFrom(s, pat, i) ==
    IF i + Len(pat) - 1 > Len(s) THEN 0
    ELSE IF SubSeq(s, i, i + Len(pat) - 1) = pat THEN i
    ELSE IndexFrom(s, pat, i + 1)

IndexTok(s, pat) == IndexFrom(s, pat, 1)

\* strings.Index: the byte offset of the first occurrence, -1 when none.
Index(s, pat) ==
    LET k == IndexTok(s, pat)
    IN IF k = 0 THEN -1 ELSE ByteLen(SubSeq(s, 1, k - 1))

\* strings.Replace(s, old, "", -1): every non-overlapping occurrence of old,
\* leftmost first, is removed; an empty old is replaced by "" between all
\* characters, which leaves s as it is.
RECURSIVE ReplaceAllWithEmpty(_, _)
ReplaceAllWithEmpty(s, old) ==
    IF old = <<>> THEN s
    ELSE LET k == IndexTok(s, old)
         IN IF k = 0 THEN s
            ELSE SubSeq(s, 1, k - 1)
                     \o ReplaceAllWithEmpty(SubSeq(s, k + Len(old), Len(s)), old)

\* strings.TrimRight(s, "\n")
RECURSIVE TrimRightNL(_)
TrimRightNL(s) ==
    IF s # <<>> /\ s[Len(s)] = NL THEN TrimRightNL(SubSeq(s, 1, Len(s) - 1)) ELSE s

RECURSIVE TrimLeftSpace(_)
TrimLeftSpace(s) ==
    IF s # <<>> /\ IsSpace(Head(s)) THEN TrimLeftSpace(Tail(s)) ELSE s

RECURSIVE TrimRightSpace(_)
TrimRightSpace(s) ==
    IF s # <<>> /\ IsSpace(s[Len(s)]) THEN TrimRightSpace(SubSeq(s, 1, Len(s) - 1)) ELSE s

\* strings.TrimSpace
TrimSpace(s) == TrimRightSpace(TrimLeftSpace(s))

\* bufio's dropCR: one trailing "\r" is dropped from a line.
DropCR(line) ==
    IF line # <<>> /\ line[Len(line)] = CR THEN SubSeq(line, 1, Len(line) - 1) ELSE line

\* bufio.Scanner with the default split function ScanLines: the lines of data,
\* without their end-of-line marker; a last line that does not end in "\n"
\* is a line too, an empty rest is not.
RECURSIVE ScanLines(_)
ScanLines(data) ==
    IF data = <<>> THEN <<>>
    ELSE LET k == IndexTok(data, <<NL>>)
         IN IF k = 0 THEN <<DropCR(data)>>
            ELSE <<DropCR(SubSeq(data, 1, k - 1))>>
                     \o ScanLines(SubSeq(data, k + 1, Len(data)))

\* strings.NewReplacer("@@owner@@", owner, "@@year@@", year).Replace(s): one
\* pass, the text put in is not scanned again.
RECURSIVE ReplacerReplace(_, _, _)
ReplacerReplace(s, owner, year) ==
    IF s = <<>> THEN <<>>
    ELSE (CASE Head(s) = OwnerMark -> owner
            [] Head(s) = YearMark -> year
            [] OTHER -> <<Head(s)>>)
             \o ReplacerReplace(Tail(s), owner, year)

(***************************************************************************)
(* The license catalog (the embedded licenses/ directory).                 *)
(***************************************************************************)
Apache2 == "apache2"
MPL2 == "mpl2"
UNLICENSE == "unlicense"
UNKNOWN == "unknown"

\* The license types of the model's catalog.
LicenseTypes == {Apache2, MPL2, UNLICENSE}

\* licenses/mpl2.header, as TestSetUnset pins it down.
MPL2Header == <<MPL2Line1, NL, MPL2Line2, NL, MPL2Line3, NL>>

\* licenses/<type>.header for the types that have one.
HeaderAssets ==
    [t \in {Apache2, MPL2} |-> IF t = MPL2 THEN MPL2Header ELSE <<"h", NL>>]

\* licenses/<type>.copyright for the types that have one.
CopyrightAssets ==
    [t \in {Apache2} |-> <<CopyrightWord, SP, YearMark, SP, OwnerMark, NL>>]

\* Asset(filepath.Join("licenses", ltype + ".header")): the data, or an error
\* when the catalog has no such file.
AssetHeader(ltype) ==
    IF ltype \in DOMAIN HeaderAssets
    THEN [err |-> FALSE, data |-> HeaderAssets[ltype]]
    ELSE [err |-> TRUE, data |-> <<>>]

\* Asset(filepath.Join("licenses", ltype + ".copyright"))
AssetCopyright(ltype) ==
    IF ltype \in DOMAIN CopyrightAssets
    THEN [err |-> FALSE, data |-> CopyrightAssets[ltype]]
    ELSE [err |-> TRUE, data |-> <<>>]

(***************************************************************************)
(* Files: a file has a content and a permission.                           *)
(***************************************************************************)
\* os.Open / ioutil.ReadFile succeed
Readable(perm) == perm \in {"rw", "ro"}
\* ioutil.WriteFile succeeds
Writable(perm) == perm \in {"rw", "wo"}

\* What is left of the bytes s after their first n bytes.
RECURSIVE DropBytes(_, _)
DropBytes(s, n) ==
    IF n = 0 \/ s = <<>> THEN s
    ELSE IF TokLen(Head(s)) <= n THEN DropBytes(Tail(s), n - TokLen(Head(s)))
    ELSE <<Frag(IF Head(s) \in Words THEN Head(s) ELSE FragWord(Head(s)),
                TokLen(Head(s)) - n)>> \o Tail(s)

\* f.Write(data) of ioutil.WriteFile, on the descriptor that WriteFile opened:
\* data goes to offset 0 of the file as it is now, and the bytes of the file
\* beyond len(data) stay.  (The file is empty unless another writer wrote
\* after this one's open with O_TRUNC.)
WriteAt0(old, data) == data \o DropBytes(old, ByteLen(data))

(***************************************************************************)
(* The header transform engine.                                            *)
(***************************************************************************)
\* prependEOLComment: every line of newdata, with the comment style and a
\* space in front and trimmed, and a "\n" behind, is written to licensedFile.
RECURSIVE PrefixLines(_, _)
PrefixLines(eol, lines) ==
    IF lines = <<>> THEN <<>>
    ELSE TrimSpace(eol \o <<SP>> \o Head(lines)) \o <<NL>> \o PrefixLines(eol, Tail(lines))

\* Mutant of prependEOLComment: no space between the comment style and the line.
RECURSIVE PrefixLines_NoSpace(_, _)
PrefixLines_NoSpace(eol, lines) ==
    IF lines = <<>> THEN <<>>
    ELSE TrimSpace(eol \o Head(lines)) \o <<NL>> \o PrefixLines_NoSpace(eol, Tail(lines))

prependEOLComment_NoSpace(licensedFile, eol, newdata) ==
    IF Len(newdata) = 0 THEN licensedFile
    ELSE licensedFile \o PrefixLines_NoSpace(eol, ScanLines(newdata))

prependEOLComment(licensedFile, eol, newdata) ==
    IF Len(newdata) = 0 THEN licensedFile
    ELSE licensedFile \o PrefixLines(eol, ScanLines(newdata))

\* The lines of the file that removeLicense keeps: those that do not begin
\* with the comment style followed by " Copyright", each with "\n" behind.
RECURSIVE KeepLines(_, _)
KeepLines(lines, eol) ==
    IF lines = <<>> THEN <<>>
    ELSE (IF HasPrefix(Head(lines), eol \o <<SP, CopyrightWord>>)
          THEN <<>>
          ELSE Head(lines) \o <<NL>>)
             \o KeepLines(Tail(lines), eol)

\* "Strip multiple empty lines from before package."
StripBeforePackage(unlicensedData) ==
    LET k == IndexTok(unlicensedData, <<NL, PackageWord>>)
        i == Index(unlicensedData, <<NL, PackageWord>>)
    IN IF i >= 3
       THEN TrimRightNL(SubSeq(unlicensedData, 1, k - 1))
                \o SubSeq(unlicensedData, k, Len(unlicensedData))
       ELSE unlicensedData

\* Mutant of UnlicensedData: the header block is not taken out.
UnlicensedData_KeepHeader(licensedFile, config) ==
    StripBeforePackage(KeepLines(ScanLines(licensedFile), config.EOLCommentStyle))

\* What removeLicense computes from the bytes it read (licensedFile): the
\* kept lines, without the comment-prefixed header block, with the empty
\* lines before "package" stripped.
UnlicensedData(licensedFile, config) ==
    LET license == prependEOLComment(<<>>, config.EOLCommentStyle,
                                     AssetHeader(config.LicenseType).data)
        unlicensedFile == KeepLines(ScanLines(licensedFile), config.EOLCommentStyle)
    IN StripBeforePackage(ReplaceAllWithEmpty(unlicensedFile, license))

\* What ioutil.ReadFile hands to removeLicense, which drops its error: the
\* content, or no bytes when the read fails.
ReadFileOrEmpty(content, perm) == IF Readable(perm) THEN content ELSE <<>>

\* Mutant of removeLicense: no early return for a license without header asset.
removeLicense_NoEarlyReturn(content, perm, config) ==
    IF Writable(perm)
    THEN [err |-> FALSE,
          content |-> UnlicensedData(ReadFileOrEmpty(content, perm), config)]
    ELSE [err |-> TRUE, content |-> content]

\* removeLicense on a file with content `content` and permission `perm`:
\* the error returned and the file's content afterwards.
removeLicense(content, perm, config) ==
    IF AssetHeader(config.LicenseType).err
    THEN [err |-> FALSE, content |-> content]
    ELSE IF Writable(perm)
    THEN [err |-> FALSE,
          content |-> UnlicensedData(ReadFileOrEmpty(content, perm), config)]
    ELSE [err |-> TRUE, content |-> content]

\* Mutant of LicenseBlock: the extra newline after the header is not written.
LicenseBlock_NoSeparator(config, year) ==
    LET eol == config.EOLCommentStyle
        lcopyright == AssetCopyright(config.LicenseType)
        cr == ~lcopyright.err
        withCopyright ==
            IF cr
            THEN prependEOLComment(<<>>, eol,
                     ReplacerReplace(lcopyright.data, config.CopyrightOwner, year))
            ELSE <<>>
        lheader == AssetHeader(config.LicenseType)
        plus == IF cr THEN <<NL>> ELSE <<>>
    IN IF ~lheader.err
       THEN prependEOLComment(withCopyright, eol,
                ReplacerReplace(plus \o lheader.data, config.CopyrightOwner, year))
       ELSE withCopyright

\* What insertLicense puts in front of the file's bytes: the comment-prefixed
\* copyright, the comment-prefixed header and the extra newline.
LicenseBlock(config, year) ==
    LET eol == config.EOLCommentStyle
        lcopyright == AssetCopyright(config.LicenseType)
        cr == ~lcopyright.err
        withCopyright ==
            IF cr
            THEN prependEOLComment(<<>>, eol,
                     ReplacerReplace(lcopyright.data, config.CopyrightOwner, year))
            ELSE <<>>
        lheader == AssetHeader(config.LicenseType)
        plus == IF cr THEN <<NL>> ELSE <<>>
        withHeader ==
            IF ~lheader.err
            THEN prependEOLComment(withCopyright, eol,
                     ReplacerReplace(plus \o lheader.data, config.CopyrightOwner, year))
            ELSE withCopyright
    IN withHeader \o <<NL>>

\* Mutant of insertLicense: the replacer runs over the whole file.
insertLicense_ReplaceWholeFile(content, perm, config, year) ==
    IF ~Readable(perm) THEN [err |-> TRUE, content |-> content]
    ELSE IF ~Writable(perm) THEN [err |-> TRUE, content |-> content]
    ELSE [err |-> FALSE,
          content |-> ReplacerReplace(LicenseBlock(config, year) \o content,
                                      config.CopyrightOwner, year)]

\* insertLicense: the error returned and the file's content afterwards.
insertLicense(content, perm, config, year) ==
    IF ~Readable(perm) THEN [err |-> TRUE, content |-> content]
    ELSE IF ~Writable(perm) THEN [err |-> TRUE, content |-> content]
    ELSE [err |-> FALSE, content |-> LicenseBlock(config, year) \o content]

(***************************************************************************)
(* Dump.  The catalog's files are inputs: `data` and `lcopyright` are what *)
(* Asset returned for the license's full text and its copyright notice.    *)
(***************************************************************************)
\* Mutant of Dump: a missing copyright asset is an error too.
Dump_CopyrightHard(data, lcopyright, owner, year) ==
    IF data.err \/ lcopyright.err THEN [err |-> TRUE, out |-> <<>>]
    ELSE [err |-> FALSE,
          out |-> ReplacerReplace(lcopyright.data \o data.data, owner, year)]

\* Dump(ltype, owner): the error of the full text's lookup is returned with
\* ""; the error of the copyright's lookup is dropped (Asset returns nil data
\* with an error); the replacer runs over copyright + full text.
Dump(data, lcopyright, owner, year) ==
    IF data.err THEN [err |-> TRUE, out |-> <<>>]
    ELSE [err |-> FALSE,
          out |-> ReplacerReplace(lcopyright.data \o data.data, owner, year)]

(***************************************************************************)
(* detectLicense.  The classifier (license.GuessType of go-license) is an  *)
(* external library: what it answers for a readable file is an input.      *)
(***************************************************************************)
\* The license types detectLicense's switch can return; UNKNOWN stands for
\* no match (license.ErrUnrecognizedLicense, or a type the switch leaves out).
GuessOutcomes == {UNKNOWN, Apache2, MPL2}

\* GuessType returned an error other than ErrUnrecognizedLicense.
GuessFailed == "failed"

\* What the classifier can answer for a file that was opened.
ClassifierOutcomes == GuessOutcomes \cup {GuessFailed}

\* Mutant of detectLicense: no match of the classifier is returned as an error.
detectLicense_UnknownIsError(perm, guess, scanErr) ==
    IF ~Readable(perm) \/ guess = UNKNOWN \/ guess = GuessFailed
    THEN [license |-> UNKNOWN, err |-> TRUE]
    ELSE [license |-> guess, err |-> scanErr]

\* detectLicense: os.Open fails on an unreadable file (UNKNOWN, err).  For an
\* opened file `guess` is the classifier's answer and scanErr tells whether
\* scanner.Err() is non-nil (a line longer than the scanner's buffer, a read
\* error): an error of GuessType other than "unrecognized" is returned with
\* UNKNOWN; no match gives UNKNOWN and a match gives its type, both with
\* scanner.Err().
detectLicense(perm, guess, scanErr) ==
    IF ~Readable(perm) THEN [license |-> UNKNOWN, err |-> TRUE]
    ELSE IF guess = GuessFailed THEN [license |-> UNKNOWN, err |-> TRUE]
    ELSE [license |-> guess, err |-> scanErr]

(***************************************************************************)
(* The body of the goroutine that Set and Unset start for one file, run    *)
(* alone: the errors it appends and the file's content afterwards.         *)
(***************************************************************************)
\* time.Now().Year()
Year == <<"2026">>

RemoveError(old) == "remove " \o old
InsertError == "insert"
UnsetError == "unset"
DetectError == "detect"

SetTask(content, perm, config, replace, guess, scanErr) ==
    LET det == detectLicense(perm, guess, scanErr)
        old == det.license
        doRemove == replace /\ ~det.err /\ old # UNKNOWN
        removeConfig == [config EXCEPT !.LicenseType = old]
        removed == IF doRemove THEN removeLicense(content, perm, removeConfig)
                   ELSE [err |-> FALSE, content |-> content]
        errs1 == IF removed.err THEN <<RemoveError(old)>> ELSE <<>>
        inserted == insertLicense(removed.content, perm, config, Year)
        errs2 == IF inserted.err THEN Append(errs1, InsertError) ELSE errs1
    IN [errors |-> errs2, content |-> inserted.content,
        detected |-> IF ~replace THEN "-" ELSE IF det.err THEN DetectError ELSE old]

UnsetTask(content, perm, config) ==
    LET removed == removeLicense(content, perm, config)
    IN [errors |-> IF removed.err THEN <<UnsetError>> ELSE <<>>,
        content |-> removed.content]

(***************************************************************************)
(* globFiles and the files of a batch.                                     *)
(***************************************************************************)
\* The files of the directory the command runs in.
Paths == {"a", "b"}

\* The file arguments of the command line: a file name, or a pattern that
\* matches every file.
Patterns == {"a", "*"}

\* filepath.Glob(arg): the matching paths, sorted.
Glob(arg) == IF arg = "*" THEN <<"a", "b">> ELSE <<arg>>

\* globFiles(args): the matches of every argument, one after the other.
RECURSIVE globFiles(_)
globFiles(arglist) ==
    IF arglist = <<>> THEN <<>> ELSE Glob(Head(arglist)) \o globFiles(Tail(arglist))

(***************************************************************************)
(* State.  The first group is one file and the Set / Unset calls applied   *)
(* to it one after the other (Spec).  The second group is one batch: a     *)
(* call of Set, Unset or Detect with its goroutines (BatchSpec).           *)
(***************************************************************************)
VARIABLES
    content,    \* the file's content
    perm,       \* the file's permission: "rw", "ro", "wo" or "none"
    config,     \* the Config of every call: license type, owner, comment style
    hist,       \* the calls made so far: what each was, found and returned
    dumped      \* the call of Dump made, with what it was given and returned

VARIABLES
    batch,          \* the batch call: [op, replace]
    args,           \* the command line's file arguments
    files,          \* config.Files, what globFiles made of args
    fs,             \* the directory: path -> [content, perm]
    mainpc,         \* where the batch call is: "loop", "wait", "returned"
    spawned,        \* how many goroutines the loop has started
    wg,             \* the WaitGroup's counter
    pc,             \* where goroutine i is
    loc,            \* goroutine i's local variables
    errors,         \* the aggregate's slice, Error.errors
    types,          \* Detect's result slice
    typesMtx,       \* Detect's mutex: 0 when free, else the goroutine holding it
    removeConfig,   \* Set's removeConfig, shared by its goroutines
    ret,            \* what the batch call returned
    failed,         \* history: the goroutines whose file operation returned an error
    accessed,       \* history: the goroutines that have read or written their file
    appended        \* history: the errors for which Error.Append has returned

seqVars == <<content, perm, config, hist, dumped>>
batchVars ==
    <<batch, args, files, fs, mainpc, spawned, wg, pc, loc, errors, types,
      typesMtx, removeConfig, ret, failed, accessed, appended>>
vars == <<seqVars, batchVars>>

EOLCommentStyles == {<<Slashes>>, <<Hash>>}
Owners == {<<"Test">>}
Perms == {"rw", "ro", "wo", "none"}

Configs ==
    [LicenseType : LicenseTypes, CopyrightOwner : Owners,
     EOLCommentStyle : EOLCommentStyles]

\* The config of TestSetUnset.
TestConfig ==
    [LicenseType |-> MPL2, CopyrightOwner |-> <<"Test">>, EOLCommentStyle |-> <<Slashes>>]

\* The lines that an initial content made of whole lines is drawn from: an
\* empty line, a package clause, a copyright notice in a "//" comment.
LineKinds == {<<>>, <<PackageWord>>, <<Slashes, SP, CopyrightWord>>}

RECURSIVE JoinLines(_)
JoinLines(lines) ==
    IF lines = <<>> THEN <<>> ELSE Head(lines) \o <<NL>> \o JoinLines(Tail(lines))

\* The contents of up to n such lines; the last line may lack its "\n".
LineContents(n) ==
    LET whole == {JoinLines(ls) : ls \in SeqsUpTo(LineKinds, n)}
    IN whole \cup {SubSeq(c, 1, Len(c) - 1) : c \in whole \ {<<>>}}

\* Contents that hold a placeholder of the replacer.
PlaceholderContents == {<<OwnerMark, NL>>, <<YearMark>>}

\* Contents with a comment line, empty lines and then the package clause.
PackageContents ==
    {<<Slashes, NL, NL, PackageWord, NL>>, <<Slashes, NL, NL, NL, PackageWord, NL>>}

\* The initial contents of the file.
Contents ==
    SeqsUpTo(Alphabet, MaxLen) \cup LineContents(MaxLines)
        \cup PlaceholderContents \cup PackageContents

NoError == [file |-> "", what |-> "nil"]
NoLocals ==
    [old |-> UNKNOWN, derr |-> FALSE, guess |-> "-", scan |-> FALSE, used |-> "-",
     err |-> NoError, buf |-> <<>>, snap |-> <<>>, cont |-> "done"]
NoReturn == [returned |-> FALSE, errors |-> <<>>, types |-> <<>>]

\* Dump has not been called.
NoDump == [called |-> FALSE]

\* No batch is running.
BatchIdle ==
    /\ batch = [op |-> "none", replace |-> FALSE]
    /\ args = <<>>
    /\ files = <<>>
    /\ fs = [p \in Paths |-> [content |-> <<>>, perm |-> "rw"]]
    /\ mainpc = "returned"
    /\ spawned = 0
    /\ wg = 0
    /\ pc = <<>>
    /\ loc = <<>>
    /\ errors = <<>>
    /\ types = <<>>
    /\ typesMtx = 0
    /\ removeConfig = [LicenseType |-> UNKNOWN, Files |-> <<>>]
    /\ ret = NoReturn
    /\ failed = {}
    /\ accessed = {}
    /\ appended = {}

Init ==
    /\ content \in Contents
    /\ perm \in Perms
    /\ (perm # "rw" => Len(content) <= FailLen)
    /\ config \in Configs
    /\ hist = <<>>
    /\ dumped = NoDump
    /\ BatchIdle

\* Set(config) without Replace on the one file.
DoSet ==
    /\ Len(hist) < MaxOps
    /\ \E r \in {SetTask(content, perm, config, FALSE, UNKNOWN, FALSE)} :
          /\ content' = r.content
          /\ hist' = Append(hist, [op |-> "set", replace |-> FALSE, detected |-> "-",
                                   errors |-> r.errors, before |-> content,
                                   after |-> r.content])
    /\ UNCHANGED <<perm, config, dumped, batchVars>>

\* Set(config) with Replace on the one file; guess is the classifier's answer
\* and scanErr whether the scan of the file failed.
DoSetReplace(guess, scanErr) ==
    /\ Len(hist) < MaxOps
    /\ \E r \in {SetTask(content, perm, config, TRUE, guess, scanErr)} :
          /\ content' = r.content
          /\ hist' = Append(hist, [op |-> "set", replace |-> TRUE,
                                   detected |-> r.detected,
                                   errors |-> r.errors, before |-> content,
                                   after |-> r.content])
    /\ UNCHANGED <<perm, config, dumped, batchVars>>

\* Unset(config) on the one file.
DoUnset ==
    /\ Len(hist) < MaxOps
    /\ \E r \in {UnsetTask(content, perm, config)} :
          /\ content' = r.content
          /\ hist' = Append(hist, [op |-> "unset", replace |-> FALSE, detected |-> "-",
                                   errors |-> r.errors, before |-> content,
                                   after |-> r.content])
    /\ UNCHANGED <<perm, config, dumped, batchVars>>

Next ==
    \/ DoSet
    \/ \E guess \in ClassifierOutcomes, scanErr \in BOOLEAN : DoSetReplace(guess, scanErr)
    \/ DoUnset

Spec == Init /\ [][Next]_vars

(***************************************************************************)
(* The dump command: one call of Dump (DumpSpec).                          *)
(***************************************************************************)
\* What Asset can return: an error with nil data, or the file's bytes.
AssetResults(texts) ==
    {[err |-> TRUE, data |-> <<>>]} \cup {[err |-> FALSE, data |-> t] : t \in texts}

\* The full texts of the model: words, newlines and placeholders.
FullTexts == SeqsUpTo({CopyrightWord, NL, OwnerMark, YearMark}, MaxLen)

\* The copyright notices of the model: empty, a placeholder alone, or the
\* notice "Copyright @@year@@ @@owner@@".
CopyrightTexts ==
    {<<>>, <<OwnerMark>>, <<YearMark>>,
     <<CopyrightWord, SP, YearMark, SP, OwnerMark, NL>>}

\* The owners given to Dump: a name, or a text that holds a placeholder.
DumpOwners == Owners \cup {<<YearMark>>}

DumpInit ==
    /\ content = <<>>
    /\ perm = "rw"
    /\ config = TestConfig
    /\ hist = <<>>
    /\ dumped = NoDump
    /\ BatchIdle

\* Dump(ltype, owner), for what the catalog holds for ltype.
DoDump ==
    /\ ~dumped.called
    /\ \E data \in AssetResults(FullTexts), lcopyright \in AssetResults(CopyrightTexts),
          owner \in DumpOwners :
          \E r \in {Dump(data, lcopyright, owner, Year)} :
             dumped' = [called |-> TRUE, data |-> data, lcopyright |-> lcopyright,
                        owner |-> owner, err |-> r.err, out |-> r.out]
    /\ UNCHANGED <<content, perm, config, hist, batchVars>>

DumpSpec == DumpInit /\ [][DoDump]_vars

(***************************************************************************)
(* One batch: Set, Unset or Detect over config.Files.  The call starts one *)
(* goroutine per entry of the list and waits for all of them (BatchSpec).  *)
(***************************************************************************)
Batches ==
    {[op |-> "set", replace |-> FALSE], [op |-> "set", replace |-> TRUE],
     [op |-> "unset", replace |-> FALSE], [op |-> "detect", replace |-> FALSE]}

\* The argument lists of the model: at least one argument, at most MaxFiles files.
ArgLists ==
    {l \in SeqsUpTo(Patterns, MaxFiles) : l # <<>> /\ Len(globFiles(l)) <= MaxFiles}

\* The permissions of a batch's files: fully accessible, or not at all.
BatchPerms == {"rw", "none"}

Tasks == 1..Len(files)

BatchInit ==
    /\ content = <<>>
    /\ perm = "rw"
    /\ config = TestConfig
    /\ hist = <<>>
    /\ dumped = NoDump
    /\ batch \in Batches
    /\ args \in ArgLists
    /\ files = globFiles(args)
    /\ fs \in [Paths -> {[content |-> <<>>, perm |-> q] : q \in BatchPerms}]
    /\ mainpc = IF Len(globFiles(args)) = 0 THEN "wait" ELSE "loop"
    /\ spawned = 0
    /\ wg = 0
    /\ pc = [i \in 1..Len(globFiles(args)) |-> "idle"]
    /\ loc = [i \in 1..Len(globFiles(args)) |-> NoLocals]
    /\ errors = <<>>
    /\ types = <<>>
    /\ typesMtx = 0
    /\ removeConfig = [LicenseType |-> TestConfig.LicenseType, Files |-> globFiles(args)]
    /\ ret = NoReturn
    /\ failed = {}
    /\ accessed = {}
    /\ appended = {}

\* The first statement of the goroutine's body.
FirstPc ==
    CASE batch.op = "set" -> IF batch.replace THEN "detect" ELSE "insLoad"
      [] batch.op = "unset" -> "rmLoad"
      [] OTHER -> "detect"

\* Where the goroutine goes on after removeLicense has returned.
AfterRemove == IF batch.op = "set" THEN "insLoad" ELSE "done"

\* The Config that removeLicense is given: &removeConfig by Set, config by Unset.
RemoveConfigNow ==
    IF batch.op = "set"
    THEN [config EXCEPT !.LicenseType = removeConfig.LicenseType]
    ELSE config

\* The loop of Set / Unset / Detect: wg.Add(1) and go func(file).
MainSpawn ==
    /\ mainpc = "loop"
    /\ spawned < Len(files)
    /\ wg' = wg + 1
    /\ spawned' = spawned + 1
    /\ pc' = [pc EXCEPT ![spawned + 1] = FirstPc]
    /\ mainpc' = IF spawned + 1 = Len(files) THEN "wait" ELSE "loop"
    /\ UNCHANGED <<seqVars, batch, args, files, fs, loc, errors, types, typesMtx,
                   removeConfig, ret, failed, accessed, appended>>

\* Mutant of WaitReady: Wait does not wait.
WaitReady_NoBarrier(counter) == counter >= 0

\* wg.Wait() returns when the counter is zero.
WaitReady(counter) == counter = 0

\* wg.Wait(), errors.IsEmpty() and the return.
MainWait ==
    /\ mainpc = "wait"
    /\ WaitReady(wg)
    /\ mainpc' = "returned"
    /\ ret' = [returned |-> TRUE, errors |-> errors,
               types |-> IF batch.op = "detect" THEN types ELSE <<>>]
    /\ UNCHANGED <<seqVars, batch, args, files, fs, spawned, wg, pc, loc, errors,
                   types, typesMtx, removeConfig, failed, accessed, appended>>

\* detectLicense(file): in Set with Replace the old license is kept in the
\* goroutine's `old`; in Detect it is kept for the result slice.  loc[i].derr
\* keeps whether an error came back; for Detect loc[i].guess and loc[i].scan
\* keep what the classifier answered and whether the scan failed (for a file
\* that was opened).
TaskDetect(i, guess, scanErr) ==
    /\ pc[i] = "detect"
    /\ \E d \in {detectLicense(fs[files[i]].perm, guess, scanErr)},
          seen \in {[guess |-> IF Readable(fs[files[i]].perm) THEN guess ELSE "-",
                     scan |-> Readable(fs[files[i]].perm) /\ guess # GuessFailed
                                /\ scanErr]} :
          IF batch.op = "set"
          THEN /\ pc' = [pc EXCEPT ![i] = IF ~d.err /\ d.license # UNKNOWN
                                          THEN "rcType" ELSE "insLoad"]
               /\ loc' = [loc EXCEPT ![i].old = d.license, ![i].derr = d.err]
               /\ failed' = failed
          ELSE /\ loc' = [loc EXCEPT ![i].old = d.license, ![i].derr = d.err,
                                     ![i].guess = seen.guess, ![i].scan = seen.scan,
                                     ![i].err = IF d.err
                                                THEN [file |-> files[i], what |-> DetectError]
                                                ELSE NoError]
               /\ pc' = [pc EXCEPT ![i] = "lock"]
               /\ failed' = IF d.err THEN failed \cup {i} ELSE failed
    /\ accessed' = accessed \cup {i}
    /\ UNCHANGED <<seqVars, batch, args, files, fs, mainpc, spawned, wg, errors,
                   types, typesMtx, removeConfig, ret, appended>>

\* Set: removeConfig.LicenseType = old, a write of the shared removeConfig.
TaskSetType(i) ==
    /\ pc[i] = "rcType"
    /\ removeConfig' = [removeConfig EXCEPT !.LicenseType = loc[i].old]
    /\ pc' = [pc EXCEPT ![i] = "rcFiles"]
    /\ UNCHANGED <<seqVars, batch, args, files, fs, mainpc, spawned, wg, loc, errors,
                   types, typesMtx, ret, failed, accessed, appended>>

\* Set: removeConfig.Files = []string{file}, a second write of it.
TaskSetFiles(i) ==
    /\ pc[i] = "rcFiles"
    /\ removeConfig' = [removeConfig EXCEPT !.Files = <<files[i]>>]
    /\ pc' = [pc EXCEPT ![i] = "rmLoad"]
    /\ UNCHANGED <<seqVars, batch, args, files, fs, mainpc, spawned, wg, loc, errors,
                   types, typesMtx, ret, failed, accessed, appended>>

\* removeLicense's lookup of the header asset: config.LicenseType is read
\* (from the shared removeConfig in Set) and kept in loc[i].used; with no
\* header asset removeLicense returns nil.
TaskRemoveLoad(i) ==
    /\ pc[i] = "rmLoad"
    /\ loc' = [loc EXCEPT ![i].used = RemoveConfigNow.LicenseType]
    /\ pc' = [pc EXCEPT ![i] = IF AssetHeader(RemoveConfigNow.LicenseType).err
                               THEN AfterRemove ELSE "rmRead"]
    /\ UNCHANGED <<seqVars, batch, args, files, fs, mainpc, spawned, wg, errors,
                   types, typesMtx, removeConfig, ret, failed, accessed, appended>>

\* removeLicense from ioutil.ReadFile to the collapse before "\npackage": the
\* file is read and the new content computed for the license type read before.
TaskRemoveRead(i) ==
    /\ pc[i] = "rmRead"
    /\ \E data \in {UnlicensedData(ReadFileOrEmpty(fs[files[i]].content,
                                                   fs[files[i]].perm),
                                   [config EXCEPT !.LicenseType = loc[i].used])} :
          loc' = [loc EXCEPT ![i].buf = data]
    /\ pc' = [pc EXCEPT ![i] = "rmStore"]
    /\ accessed' = accessed \cup {i}
    /\ UNCHANGED <<seqVars, batch, args, files, fs, mainpc, spawned, wg, errors,
                   types, typesMtx, removeConfig, ret, failed, appended>>

\* removeLicense's ioutil.WriteFile, first half: the file is opened with
\* O_TRUNC, which empties it; on a file that cannot be written the open fails
\* and removeLicense returns the error.
TaskRemoveStore(i) ==
    /\ pc[i] = "rmStore"
    /\ IF Writable(fs[files[i]].perm)
       THEN /\ fs' = [fs EXCEPT ![files[i]].content = <<>>]
            /\ pc' = [pc EXCEPT ![i] = "rmWrite"]
            /\ UNCHANGED <<loc, failed>>
       ELSE /\ loc' = [loc EXCEPT ![i].err =
                          [file |-> files[i],
                           what |-> IF batch.op = "set" THEN RemoveError(loc[i].old)
                                    ELSE UnsetError],
                                  ![i].cont = AfterRemove]
            /\ pc' = [pc EXCEPT ![i] = "appRead"]
            /\ failed' = failed \cup {i}
            /\ fs' = fs
    /\ UNCHANGED <<seqVars, batch, args, files, mainpc, spawned, wg, errors,
                   types, typesMtx, removeConfig, ret, accessed, appended>>

\* removeLicense's ioutil.WriteFile, second half: the data is written.
TaskRemoveWrite(i) ==
    /\ pc[i] = "rmWrite"
    /\ fs' = [fs EXCEPT ![files[i]].content = WriteAt0(@, loc[i].buf)]
    /\ pc' = [pc EXCEPT ![i] = AfterRemove]
    /\ UNCHANGED <<seqVars, batch, args, files, mainpc, spawned, wg, loc, errors,
                   types, typesMtx, removeConfig, ret, failed, accessed, appended>>

\* insertLicense up to io.Copy: the block is rendered and the file read.
TaskInsertLoad(i) ==
    /\ pc[i] = "insLoad"
    /\ IF Readable(fs[files[i]].perm)
       THEN /\ loc' = [loc EXCEPT ![i].buf =
                          LicenseBlock(config, Year) \o fs[files[i]].content]
            /\ pc' = [pc EXCEPT ![i] = "insStore"]
            /\ failed' = failed
       ELSE /\ loc' = [loc EXCEPT ![i].err = [file |-> files[i], what |-> InsertError],
                                  ![i].cont = "done"]
            /\ pc' = [pc EXCEPT ![i] = "appRead"]
            /\ failed' = failed \cup {i}
    /\ accessed' = accessed \cup {i}
    /\ UNCHANGED <<seqVars, batch, args, files, fs, mainpc, spawned, wg, errors,
                   types, typesMtx, removeConfig, ret, appended>>

\* insertLicense's ioutil.WriteFile, first half: the file is opened with
\* O_TRUNC, which empties it; on a file that cannot be written the open fails
\* and insertLicense returns the error.
TaskInsertStore(i) ==
    /\ pc[i] = "insStore"
    /\ IF Writable(fs[files[i]].perm)
       THEN /\ fs' = [fs EXCEPT ![files[i]].content = <<>>]
            /\ pc' = [pc EXCEPT ![i] = "insWrite"]
            /\ UNCHANGED <<loc, failed>>
       ELSE /\ loc' = [loc EXCEPT ![i].err = [file |-> files[i], what |-> InsertError],
                                  ![i].cont = "done"]
            /\ pc' = [pc EXCEPT ![i] = "appRead"]
            /\ failed' = failed \cup {i}
            /\ fs' = fs
    /\ UNCHANGED <<seqVars, batch, args, files, mainpc, spawned, wg, errors,
                   types, typesMtx, removeConfig, ret, accessed, appended>>

\* insertLicense's ioutil.WriteFile, second half: the data is written.
TaskInsertWrite(i) ==
    /\ pc[i] = "insWrite"
    /\ fs' = [fs EXCEPT ![files[i]].content = WriteAt0(@, loc[i].buf)]
    /\ pc' = [pc EXCEPT ![i] = "done"]
    /\ UNCHANGED <<seqVars, batch, args, files, mainpc, spawned, wg, loc, errors,
                   types, typesMtx, removeConfig, ret, failed, accessed, appended>>

\* Error.Append, first half: e.errors is read.
TaskAppendRead(i) ==
    /\ pc[i] = "appRead"
    /\ loc' = [loc EXCEPT ![i].snap = errors]
    /\ pc' = [pc EXCEPT ![i] = "appWrite"]
    /\ UNCHANGED <<seqVars, batch, args, files, fs, mainpc, spawned, wg, errors,
                   types, typesMtx, removeConfig, ret, failed, accessed, appended>>

\* Error.Append, second half: the slice read, with err appended, is stored
\* in e.errors.
TaskAppendWrite(i) ==
    /\ pc[i] = "appWrite"
    /\ errors' = Append(loc[i].snap, loc[i].err)
    /\ appended' = appended \cup {[task |-> i, err |-> loc[i].err]}
    /\ pc' = [pc EXCEPT ![i] = loc[i].cont]
    /\ UNCHANGED <<seqVars, batch, args, files, fs, mainpc, spawned, wg, loc,
                   types, typesMtx, removeConfig, ret, failed, accessed>>

\* Detect: typesMtx.Lock()
TaskLock(i) ==
    /\ pc[i] = "lock"
    /\ typesMtx = 0
    /\ typesMtx' = i
    /\ pc' = [pc EXCEPT ![i] = "typesAppend"]
    /\ UNCHANGED <<seqVars, batch, args, files, fs, mainpc, spawned, wg, loc, errors,
                   types, removeConfig, ret, failed, accessed, appended>>

\* Detect: types = append(types, fileLicense{file, lic})
TaskTypesAppend(i) ==
    /\ pc[i] = "typesAppend"
    /\ types' = Append(types, [file |-> files[i], license |-> loc[i].old])
    /\ pc' = [pc EXCEPT ![i] = "unlock"]
    /\ UNCHANGED <<seqVars, batch, args, files, fs, mainpc, spawned, wg, loc, errors,
                   typesMtx, removeConfig, ret, failed, accessed, appended>>

\* Detect: typesMtx.Unlock(), and on to errors.Append when detectLicense failed.
TaskUnlock(i) ==
    /\ pc[i] = "unlock"
    /\ typesMtx' = 0
    /\ pc' = [pc EXCEPT ![i] = IF loc[i].err # NoError THEN "appRead" ELSE "done"]
    /\ UNCHANGED <<seqVars, batch, args, files, fs, mainpc, spawned, wg, loc, errors,
                   types, removeConfig, ret, failed, accessed, appended>>

\* The deferred wg.Done().
TaskDone(i) ==
    /\ pc[i] = "done"
    /\ wg' = wg - 1
    /\ pc' = [pc EXCEPT ![i] = "exit"]
    /\ UNCHANGED <<seqVars, batch, args, files, fs, mainpc, spawned, loc, errors,
                   types, typesMtx, removeConfig, ret, failed, accessed, appended>>

MainNext == MainSpawn \/ MainWait

BatchNext ==
    \/ MainSpawn
    \/ MainWait
    \/ \E i \in Tasks : \E guess \in ClassifierOutcomes, scanErr \in BOOLEAN :
          TaskDetect(i, guess, scanErr)
    \/ \E i \in Tasks : TaskSetType(i)
    \/ \E i \in Tasks : TaskSetFiles(i)
    \/ \E i \in Tasks : TaskRemoveLoad(i)
    \/ \E i \in Tasks : TaskRemoveRead(i)
    \/ \E i \in Tasks : TaskRemoveStore(i)
    \/ \E i \in Tasks : TaskRemoveWrite(i)
    \/ \E i \in Tasks : TaskInsertLoad(i)
    \/ \E i \in Tasks : TaskInsertStore(i)
    \/ \E i \in Tasks : TaskInsertWrite(i)
    \/ \E i \in Tasks : TaskAppendRead(i)
    \/ \E i \in Tasks : TaskAppendWrite(i)
    \/ \E i \in Tasks : TaskLock(i)
    \/ \E i \in Tasks : TaskTypesAppend(i)
    \/ \E i \in Tasks : TaskUnlock(i)
    \/ \E i \in Tasks : TaskDone(i)

BatchSpec == BatchInit /\ [][BatchNext]_vars

\* The Go scheduler resumes the calling goroutine whenever it can take a
\* step: a caller parked in wg.Wait is woken once the counter reaches zero.
\* Nothing is assumed about how the per-file goroutines are scheduled.
FairBatchSpec ==
    /\ BatchSpec
    /\ WF_vars(MainNext)

(***************************************************************************)
(* Properties of Set and Unset on one file (checked under Spec).           *)
(***************************************************************************)
HasHeader(ltype) == ~AssetHeader(ltype).err
HasCopyright(ltype) == ~AssetCopyright(ltype).err

\* The comment-prefixed header block that removeLicense looks for.
HeaderBlock(cfg) ==
    prependEOLComment(<<>>, cfg.EOLCommentStyle, AssetHeader(cfg.LicenseType).data)

\* hist[k] is a Set without Replace that returned no error.
IsInsert(k) ==
    /\ k <= Len(hist)
    /\ hist[k].op = "set" /\ ~hist[k].replace /\ hist[k].errors = <<>>

\* hist[k] is a Set with Replace that returned no error.
IsReplace(k) ==
    /\ k <= Len(hist)
    /\ hist[k].op = "set" /\ hist[k].replace /\ hist[k].errors = <<>>

\* hist[k] is an Unset that returned no error.
IsRemove(k) ==
    /\ k <= Len(hist)
    /\ hist[k].op = "unset" /\ hist[k].errors = <<>>

\* The file TestSetUnset expects after Set (the test's variable mpl2).
TestMPL2 ==
    <<Slashes, SP, MPL2Line1, NL, Slashes, SP, MPL2Line2, NL,
      Slashes, SP, MPL2Line3, NL, NL>>

\* C1 as the spec states it: insertLicense and then removeLicense, with the
\* same license (one that has a non-empty header) and comment style, leave the
\* file's content equal to the content before the insert.
C1_RoundTrip ==
    (/\ IsInsert(1) /\ IsRemove(2)
     /\ HasHeader(config.LicenseType)
     /\ AssetHeader(config.LicenseType).data # <<>>)
        => hist[2].after = hist[1].before

\* The content is made of lines that all end in "\n".
TerminatedLines(c) == c = <<>> \/ c[Len(c)] = NL
\* No line ends in "\r\n".
NoCRLF(c) == \A i \in 1..(Len(c) - 1) : ~(c[i] = CR /\ c[i + 1] = NL)
\* No line begins with the comment style followed by " Copyright".
NoCopyrightLine(c, eol) ==
    \A k \in 1..Len(ScanLines(c)) :
        ~HasPrefix(ScanLines(c)[k], eol \o <<SP, CopyrightWord>>)
\* The header has no placeholder, and none of its comment-prefixed lines
\* begins with the comment style followed by " Copyright".
PlainHeader(cfg) ==
    /\ \A i \in 1..Len(AssetHeader(cfg.LicenseType).data) :
           AssetHeader(cfg.LicenseType).data[i] \notin {OwnerMark, YearMark}
    /\ NoCopyrightLine(HeaderBlock(cfg), cfg.EOLCommentStyle)
\* In d, the first "\npackage" is within the first three bytes or does not
\* follow a "\n" (or there is none).
NoEmptyLineBeforePackage(d) ==
    LET k == IndexTok(d, <<NL, PackageWord>>)
    IN k = 0 \/ ByteLen(SubSeq(d, 1, k - 1)) < 3 \/ d[k - 1] # NL

\* C1 amended: for a license with a non-empty header that has no placeholder,
\* and with no copyright asset, insertLicense and then removeLicense leave the
\* separator newline in front of the original content ("\n" + content),
\* provided the content is made of "\n"-terminated lines none of which ends
\* in "\r" or begins with the comment style and " Copyright", does not hold
\* the comment-prefixed header block, and has no empty line before its first
\* "\npackage" beyond the third byte.
C1_RoundTripLeavesSeparator ==
    (/\ IsInsert(1) /\ IsRemove(2)
     /\ HasHeader(config.LicenseType)
     /\ AssetHeader(config.LicenseType).data # <<>>
     /\ ~HasCopyright(config.LicenseType)
     /\ PlainHeader(config)
     /\ TerminatedLines(hist[1].before)
     /\ NoCRLF(hist[1].before)
     /\ NoCopyrightLine(hist[1].before, config.EOLCommentStyle)
     /\ IndexTok(<<NL>> \o hist[1].before, HeaderBlock(config)) = 0
     /\ NoEmptyLineBeforePackage(<<NL>> \o hist[1].before))
        => hist[2].after = <<NL>> \o hist[1].before

\* Witness of C1: an insert and a remove on a file that holds a package line.
C1_Witness ==
    /\ IsInsert(1) /\ IsRemove(2)
    /\ config.LicenseType = MPL2
    /\ hist[1].before = <<PackageWord, NL>>
    /\ hist[1].after = LicenseBlock(config, Year) \o <<PackageWord, NL>>
    /\ hist[2].after = <<NL, PackageWord, NL>>

\* C6 as stated: Set with Replace applied twice (the second call detecting
\* the license the first inserted) leaves the content the first call left.
C6_ReplaceTwiceIsReplaceOnce ==
    (/\ IsReplace(1) /\ IsReplace(2)
     /\ hist[1].detected = UNKNOWN
     /\ hist[2].detected = config.LicenseType)
        => hist[2].after = hist[1].after

\* C7 as stated: an Unset (removeLicense) with a license that has a header, on
\* a file that cannot be read, returns an error and leaves the content as it is.
C7_ReadFailurePropagates ==
    \A k \in 1..Len(hist) :
        (/\ hist[k].op = "unset"
         /\ HasHeader(config.LicenseType)
         /\ ~Readable(perm))
            => (hist[k].errors # <<>> /\ hist[k].after = hist[k].before)

\* C8: an Unset (removeLicense) with a license that has no header asset returns
\* no error and leaves the content exactly as it is, whatever the content and
\* the file's permission.
C8_HeaderlessNoOp ==
    \A k \in 1..Len(hist) :
        (hist[k].op = "unset" /\ ~HasHeader(config.LicenseType))
            => (hist[k].errors = <<>> /\ hist[k].after = hist[k].before)

\* Witness of C8: Unset with unlicense on a file whose line begins with
\* "// Copyright".
C8_Witness ==
    /\ Len(hist) >= 1
    /\ hist[1].op = "unset"
    /\ config.LicenseType = UNLICENSE
    /\ config.EOLCommentStyle = <<Slashes>>
    /\ hist[1].before = <<Slashes, SP, CopyrightWord>>
    /\ content = <<Slashes, SP, CopyrightWord>>

\* C9: Set without Replace, with mpl2, owner "Test" and style "//", on an empty
\* file writes the three header lines, each after "// ", then one empty line,
\* and returns no error.
C9_SetMPL2OnEmptyFile ==
    (/\ Len(hist) >= 1
     /\ hist[1].op = "set" /\ ~hist[1].replace
     /\ hist[1].before = <<>>
     /\ perm = "rw"
     /\ config = TestConfig)
        => (hist[1].after = TestMPL2 /\ hist[1].errors = <<>>)

\* Witness of C9: the Set of TestSetUnset has run.
C9_Witness ==
    /\ Len(hist) = 1
    /\ hist[1].op = "set" /\ ~hist[1].replace
    /\ hist[1].before = <<>>
    /\ perm = "rw"
    /\ config = TestConfig
    /\ content = TestMPL2

\* C10: Set and then Unset with mpl2 and style "//" on an empty file leave
\* exactly "\n" in the file, and both return no error.
C10_SetUnsetLeavesNewline ==
    (/\ Len(hist) = 2
     /\ hist[1].op = "set" /\ ~hist[1].replace
     /\ hist[2].op = "unset"
     /\ hist[1].before = <<>>
     /\ perm = "rw"
     /\ config.LicenseType = MPL2
     /\ config.EOLCommentStyle = <<Slashes>>)
        => (/\ content = <<NL>>
            /\ hist[1].errors = <<>>
            /\ hist[2].errors = <<>>)

\* Witness of C10: the Set and the Unset of TestSetUnset have run.
C10_Witness ==
    /\ Len(hist) = 2
    /\ hist[1].op = "set" /\ ~hist[1].replace
    /\ hist[2].op = "unset"
    /\ hist[1].before = <<>>
    /\ hist[2].before = TestMPL2
    /\ config = TestConfig
    /\ content = <<NL>>

(***************************************************************************)
(* Properties of a batch (checked under BatchSpec and FairBatchSpec).      *)
(***************************************************************************)
\* Every goroutine of the batch has been started and has run to its end.
AllExited == \A i \in Tasks : pc[i] = "exit"

\* A batch call has returned.
Returned == batch.op # "none" /\ mainpc = "returned"

\* C2 as stated: when the batch returns, every file has been attempted,
\* Detect's result has one entry per file, and the aggregate holds exactly
\* one error per file whose operation failed.
C2_BatchCompleteness ==
    Returned =>
        /\ \A i \in Tasks : pc[i] = "exit"
        /\ (batch.op = "detect" => Len(ret.types) = Len(files))
        /\ Len(ret.errors) = Cardinality(failed)

\* Goroutine i is inside Error.Append: it has read e.errors and not yet
\* stored the longer slice.
InAppend(i) == pc[i] = "appWrite"

\* C3 as stated: no two goroutines are inside Error.Append at once, and every
\* error for which Append returned is in the aggregate the batch returns.
C3_AppendIsExclusive ==
    /\ \A i, j \in Tasks : (InAppend(i) /\ InAppend(j)) => i = j
    /\ Returned => Len(ret.errors) = Cardinality(appended)

\* C4 as stated: in a Set or Unset batch no two goroutines read or write the
\* same path.
C4_OneTaskPerFile ==
    batch.op \in {"set", "unset"} =>
        \A i, j \in accessed : files[i] = files[j] => i = j

\* C5: a batch returns only when every goroutine it started has run to its
\* end, and once they all have, it returns.
C5_JoinBarrier ==
    /\ [](Returned => AllExited)
    /\ ((batch.op # "none" /\ AllExited) ~> Returned)

\* Witness of C5: a batch over two files has returned, with an error.
C5_Witness ==
    /\ Returned
    /\ Len(files) = 2
    /\ AllExited
    /\ ret.errors # <<>>

\* The result slice `ts` of Detect holds the entry (file of goroutine i, lic).
HasEntry(ts, i, lic) ==
    \E k \in 1..Len(ts) : ts[k] = [file |-> files[i], license |-> lic]

\* Goroutine i of a Detect batch has called detectLicense on a file that
\* was opened and for which the classifier found no match.
NoMatch(i) ==
    /\ pc[i] \notin {"idle", "detect"}
    /\ Readable(fs[files[i]].perm)
    /\ loc[i].guess = UNKNOWN

\* Goroutine i has appended its entry to Detect's result slice.
PastTypesAppend(i) == pc[i] \in {"unlock", "appRead", "appWrite", "done", "exit"}

\* Goroutine i has called Error.Append.
HasAppended(i) == \E e \in appended : e.task = i

\* C11 as stated: in a Detect batch, a file for which the classifier finds no
\* match gives unknown and no error: its goroutine records the entry
\* (file, unknown) and appends nothing to the aggregate; and when the batch
\* returns every file of the batch has its entry.
C11_DetectionFailureIsNoError ==
    batch.op = "detect" =>
        /\ \A i \in Tasks :
               NoMatch(i)
                   => /\ loc[i].old = UNKNOWN
                      /\ loc[i].err = NoError
                      /\ i \notin failed
                      /\ ~HasAppended(i)
                      /\ PastTypesAppend(i) => HasEntry(types, i, UNKNOWN)
        /\ Returned =>
               /\ Len(ret.types) = Len(files)
               /\ \A i \in Tasks : HasEntry(ret.types, i, loc[i].old)

\* C11 amended: in a Detect batch, a file for which the classifier finds no
\* match gives unknown, and its goroutine records the entry (file, unknown);
\* when the scan of the file did not fail there is no error and the
\* goroutine appends nothing to the aggregate, and when it failed the
\* scanner's error is returned and the goroutine appends it.  When the batch
\* returns every file of the batch has its entry.
C11_NoMatchIsNoErrorWhenScanned ==
    batch.op = "detect" =>
        /\ \A i \in Tasks :
               NoMatch(i)
                   => /\ loc[i].old = UNKNOWN
                      /\ PastTypesAppend(i) => HasEntry(types, i, UNKNOWN)
                      /\ ~loc[i].scan
                            => /\ loc[i].err = NoError
                               /\ i \notin failed
                               /\ ~HasAppended(i)
                      /\ loc[i].scan
                            => /\ loc[i].err = [file |-> files[i], what |-> DetectError]
                               /\ i \in failed
                               /\ pc[i] \in {"done", "exit"} => HasAppended(i)
        /\ Returned =>
               /\ Len(ret.types) = Len(files)
               /\ \A i \in Tasks : HasEntry(ret.types, i, loc[i].old)

\* Witness of C11: Detect over two readable files has returned; the
\* classifier found no match for either, the scan of the first did not fail
\* and the scan of the second did.
C11_Witness ==
    /\ Returned
    /\ batch.op = "detect"
    /\ files = <<"a", "b">>
    /\ fs["a"].perm = "rw" /\ fs["b"].perm = "rw"
    /\ loc[1].guess = UNKNOWN /\ ~loc[1].scan
    /\ loc[2].guess = UNKNOWN /\ loc[2].scan
    /\ HasEntry(ret.types, 1, UNKNOWN) /\ HasEntry(ret.types, 2, UNKNOWN)
    /\ ~HasAppended(1) /\ HasAppended(2)
    /\ ret.errors = <<[file |-> "b", what |-> DetectError]>>

(***************************************************************************)
(* Properties of Dump (checked under DumpSpec).                            *)
(***************************************************************************)
\* The text holds no placeholder.
NoPlaceholder(s) == \A i \in 1..Len(s) : s[i] \notin {OwnerMark, YearMark}

\* C12: Dump returns an error, and "", exactly when the full text is missing
\* from the catalog; otherwise it returns no error and the copyright notice
\* (nothing when it is missing) followed by the full text, every "@@owner@@"
\* replaced by the owner and every "@@year@@" by the year; a full text with
\* no placeholder and no copyright notice is returned as it is.
C12_DumpHardAndSoft ==
    dumped.called =>
        /\ dumped.err <=> dumped.data.err
        /\ dumped.err => dumped.out = <<>>
        /\ ~dumped.err =>
               /\ dumped.out =
                      ReplacerReplace((IF dumped.lcopyright.err THEN <<>>
                                       ELSE dumped.lcopyright.data) \o dumped.data.data,
                                      dumped.owner, Year)
               /\ NoPlaceholder(dumped.owner) => NoPlaceholder(dumped.out)
               /\ (dumped.lcopyright.err /\ NoPlaceholder(dumped.data.data))
                     => dumped.out = dumped.data.data

\* Witness of C12: Dump for a license with no copyright notice, whose full
\* text holds both placeholders.
C12_Witness ==
    /\ dumped.called
    /\ ~dumped.err
    /\ dumped.lcopyright.err
    /\ dumped.data.data = <<OwnerMark, NL, YearMark>>
    /\ dumped.owner = <<"Test">>
    /\ dumped.out = <<"Test", NL, "2026">>

(***************************************************************************)
(* Properties of Set with Replace in a batch (checked under BatchSpec).    *)
(***************************************************************************)
\* C13 as stated: in a Set with Replace, removeLicense on a file works with
\* the license type that detectLicense returned for that same file, and
\* insertLicense on the file starts only after removeLicense has run.
C13_ReplaceComposes ==
    (batch.op = "set" /\ batch.replace) =>
        \A i \in Tasks :
            /\ loc[i].used # "-" => loc[i].used = loc[i].old
            /\ (/\ pc[i] \in {"insLoad", "insStore", "insWrite"}
                /\ loc[i].old # UNKNOWN /\ ~loc[i].derr)
                  => loc[i].used # "-"

(***************************************************************************)
(* The layout of what insertLicense writes (checked under Spec).           *)
(***************************************************************************)
\* The copyright notice of cfg's license, rendered and comment-prefixed;
\* nothing when the license has none.
CopyrightBlock(cfg) ==
    IF HasCopyright(cfg.LicenseType)
    THEN prependEOLComment(<<>>, cfg.EOLCommentStyle,
             ReplacerReplace(AssetCopyright(cfg.LicenseType).data,
                             cfg.CopyrightOwner, Year))
    ELSE <<>>

\* The header of cfg's license, rendered and comment-prefixed; nothing when
\* the license has none.
RenderedHeaderBlock(cfg) ==
    IF HasHeader(cfg.LicenseType)
    THEN prependEOLComment(<<>>, cfg.EOLCommentStyle,
             ReplacerReplace(AssetHeader(cfg.LicenseType).data,
                             cfg.CopyrightOwner, Year))
    ELSE <<>>

\* What insertLicense leaves in the file when `sep` stands between the
\* copyright block and the header block of a license that has both.
InsertLayout(cfg, sep, before) ==
    CopyrightBlock(cfg)
        \o (IF HasCopyright(cfg.LicenseType) /\ HasHeader(cfg.LicenseType)
            THEN sep ELSE <<>>)
        \o RenderedHeaderBlock(cfg) \o <<NL>> \o before

\* C14 as stated: insertLicense writes the copyright block, the header
\* block, an empty line between the two when both are present, one more
\* empty line, and the original content unchanged.
C14_InsertLayoutBlankSeparator ==
    \A k \in 1..Len(hist) :
        IsInsert(k) => hist[k].after = InsertLayout(config, <<NL>>, hist[k].before)

\* C14 amended: insertLicense writes the copyright block, the header block,
\* between the two (when both are present) a line that holds the comment
\* style alone, then one empty line, and the original content unchanged,
\* placeholders in it included.
C14_InsertLayoutCommentSeparator ==
    \A k \in 1..Len(hist) :
        IsInsert(k) =>
            hist[k].after =
                InsertLayout(config, config.EOLCommentStyle \o <<NL>>, hist[k].before)

\* Witness of C14: insertLicense with a license that has both a copyright
\* notice and a header, on a file that holds a placeholder.
C14_Witness ==
    /\ IsInsert(1)
    /\ config.LicenseType = Apache2
    /\ config.EOLCommentStyle = <<Slashes>>
    /\ hist[1].before = <<OwnerMark, NL>>
    /\ hist[1].after =
           <<Slashes, SP, CopyrightWord, SP, "2026", SP, "Test", NL,
             Slashes, NL,
             Slashes, SP, "h", NL,
             NL,
             OwnerMark, NL>>

(***************************************************************************)
(* The empty lines before the package clause (checked under Spec).         *)
(***************************************************************************)
\* The line at which strings.Index(d, "\npackage") finds its match: the
\* first line that begins with "package" and follows a "\n", so never the
\* first line of the content; 0 when there is no match.
FirstPackageLine(lines) ==
    LET ps == {j \in 2..Len(lines) : HasPrefix(lines[j], <<PackageWord>>)}
    IN IF ps = {} THEN 0 ELSE CHOOSE j \in ps : \A h \in ps : j <= h

\* C15 as stated: when the content (with no copyright line and no header
\* block to strip) has one or more empty lines right before the first
\* package line that follows other lines, and some line that is not empty
\* before them, removeLicense leaves exactly one empty line right before
\* that package line.
C15_BlankLinesCollapseToOne ==
    \A k \in 1..Len(hist) :
        LET inL == ScanLines(hist[k].before)
            outL == ScanLines(hist[k].after)
            p == FirstPackageLine(inL)
            q == FirstPackageLine(outL)
        IN (/\ IsRemove(k)
            /\ HasHeader(config.LicenseType)
            /\ NoCopyrightLine(hist[k].before, config.EOLCommentStyle)
            /\ IndexTok(hist[k].before, HeaderBlock(config)) = 0
            /\ p >= 3
            /\ inL[p - 1] = <<>>
            /\ \E j \in 1..(p - 2) : inL[j] # <<>>)
               => /\ q >= 2
                  /\ outL[q - 1] = <<>>
                  /\ (q = 2 \/ outL[q - 2] # <<>>)

(***************************************************************************)
(* Unset applied twice (checked under Spec).                               *)
(***************************************************************************)
\* C16 as stated: with a license that has a header, a second removeLicense
\* leaves the content that the first one left.
C16_UnsetTwiceIsUnsetOnce ==
    (/\ IsRemove(1) /\ IsRemove(2)
     /\ HasHeader(config.LicenseType))
        => hist[2].after = hist[1].after

====
